---- MODULE Spec2Model ----
(***************************************************************************)
(* A model of src/parser.rs: the SQL tokenizer (Tokenizer::tokenize,       *)
(* Tokenizer::next_token) and the precedence-climbing parser (Parser).     *)
(*                                                                         *)
(* Characters are one-character strings, texts are sequences of            *)
(* characters.  A token is a record [type, text]; punctuation and operator *)
(* tokens carry the empty text.  Integers parsed from digit texts are kept *)
(* as canonical decimal digit sequences, so that the i64 range check of    *)
(* str::parse::<i64> is modelled on the digits themselves.                 *)
(*                                                                         *)
(* The tokenizer is a step machine (one action per call of next_token by   *)
(* the loop of tokenize) and also a function (tokenize) for claims that    *)
(* compare the tokenization of two strings.  The parser is a family of     *)
(* recursive operators on the parser object self = [tokens, index, ...].   *)
(***************************************************************************)
EXTENDS Integers, Sequences, FiniteSets, TLC

VARIABLES query, pos, raw, phase, tokens, result

vars == <<query, pos, raw, phase, tokens, result>>

-----------------------------------------------------------------------------
(* Bounds of the model *)

\* longest query string of TokSpec
MaxQueryLen == 4
\* cap on the tokens the scan loop may push (the loop of tokenize itself has none)
MaxRawTokens == 6
\* longest token sequence of the exhaustive family of Spec
MaxExprLen == 4
\* most column definitions of a generated CREATE EXTERNAL TABLE statement
MaxCols == 2
\* most projection items of a generated SELECT statement
MaxItems == 2

-----------------------------------------------------------------------------
(* Characters *)

LowerSeq == <<"a","b","c","d","e","f","g","h","i","j","k","l","m",
              "n","o","p","q","r","s","t","u","v","w","x","y","z">>
UpperSeq == <<"A","B","C","D","E","F","G","H","I","J","K","L","M",
              "N","O","P","Q","R","S","T","U","V","W","X","Y","Z">>
DigitSeq == <<"0","1","2","3","4","5","6","7","8","9">>

Range(s) == {s[i] : i \in DOMAIN s}

LowerChars == Range(LowerSeq)
UpperChars == Range(UpperSeq)
DigitChars == Range(DigitSeq)
WhitespaceChars == {" ", "\t", "\n"}
\* the characters that start an identifier or keyword (parser.rs:99)
IdentStartChars == LowerChars \cup UpperChars \cup {"_", "@"}
\* the characters that continue an identifier or keyword (parser.rs:103)
IdentPartChars == LowerChars \cup UpperChars \cup {"_"} \cup DigitChars

IndexIn(s, c) == CHOOSE i \in DOMAIN s : s[i] = c

\* char::to_ascii_uppercase / to_ascii_lowercase
UpperMap == [c \in LowerChars |-> UpperSeq[IndexIn(LowerSeq, c)]]
LowerMap == [c \in UpperChars |-> LowerSeq[IndexIn(UpperSeq, c)]]
UpperOf(c) == IF c \in LowerChars THEN UpperMap[c] ELSE c
LowerOf(c) == IF c \in UpperChars THEN LowerMap[c] ELSE c

to_uppercase(s) == [i \in 1..Len(s) |-> UpperOf(s[i])]
to_lowercase(s) == [i \in 1..Len(s) |-> LowerOf(s[i])]
eq_ignore_ascii_case(a, b) == Len(a) = Len(b) /\ to_lowercase(a) = to_lowercase(b)

-----------------------------------------------------------------------------
(* Tokens *)

Tok(type, text) == [type |-> type, text |-> text]

Identifier(s) == Tok("Identifier", s)
Keyword(s)    == Tok("Keyword", s)
Number(s)     == Tok("Number", s)
Comma      == Tok("Comma", <<>>)
Whitespace == Tok("Whitespace", <<>>)
Eq     == Tok("Eq", <<>>)
Neq    == Tok("Neq", <<>>)
Lt     == Tok("Lt", <<>>)
Gt     == Tok("Gt", <<>>)
LtEq   == Tok("LtEq", <<>>)
GtEq   == Tok("GtEq", <<>>)
Plus   == Tok("Plus", <<>>)
Minus  == Tok("Minus", <<>>)
Mult   == Tok("Mult", <<>>)
Div    == Tok("Div", <<>>)
LParen == Tok("LParen", <<>>)
RParen == Tok("RParen", <<>>)

\* Option<Token>::None
NoToken == Tok("None", <<>>)
\* a character named by an error message
CharOf(c) == Tok("Char", <<c>>)

KW_SELECT   == <<"S","E","L","E","C","T">>
KW_FROM     == <<"F","R","O","M">>
KW_WHERE    == <<"W","H","E","R","E">>
KW_LIMIT    == <<"L","I","M","I","T">>
KW_ORDER    == <<"O","R","D","E","R">>
KW_GROUP    == <<"G","R","O","U","P">>
KW_BY       == <<"B","Y">>
KW_HAVING   == <<"H","A","V","I","N","G">>
KW_UNION    == <<"U","N","I","O","N">>
KW_ALL      == <<"A","L","L">>
KW_INSERT   == <<"I","N","S","E","R","T">>
KW_UPDATE   == <<"U","P","D","A","T","E">>
KW_DELETE   == <<"D","E","L","E","T","E">>
KW_IN       == <<"I","N">>
KW_NOT      == <<"N","O","T">>
KW_NULL     == <<"N","U","L","L">>
KW_SET      == <<"S","E","T">>
KW_CREATE   == <<"C","R","E","A","T","E">>
KW_EXTERNAL == <<"E","X","T","E","R","N","A","L">>
KW_TABLE    == <<"T","A","B","L","E">>
KW_VARCHAR  == <<"V","A","R","C","H","A","R">>
KW_DOUBLE   == <<"D","O","U","B","L","E">>

KEYWORDS == {KW_SELECT, KW_FROM, KW_WHERE, KW_LIMIT, KW_ORDER, KW_GROUP, KW_BY,
             KW_HAVING, KW_UNION, KW_ALL, KW_INSERT, KW_UPDATE, KW_DELETE, KW_IN,
             KW_NOT, KW_NULL, KW_SET, KW_CREATE, KW_EXTERNAL, KW_TABLE,
             KW_VARCHAR, KW_DOUBLE}

-----------------------------------------------------------------------------
(* Errors: ParserError::TokenizerError(String) and ParserError::ParserError *)
(* (String).  The formatted message is kept as its fixed text msg and the   *)
(* values a, b that the format string interpolates.                         *)

Error(kind, msg, a, b) == [kind |-> kind, msg |-> msg, a |-> a, b |-> b]
TokenizerError(msg, a) == Error("TokenizerError", msg, a, NoToken)
ParserError(msg, a, b) == Error("ParserError", msg, a, b)
NoError == Error("None", "", NoToken, NoToken)

-----------------------------------------------------------------------------
(* Tokenizer *)

\* the inner `while let Some(&ch) = chars.peek()` loops of next_token: the
\* position reached from p by consuming while the next character is in class
RECURSIVE ConsumeWhile(_, _, _)
ConsumeWhile(chars, p, class) ==
    IF p < Len(chars) /\ chars[p + 1] \in class
    THEN ConsumeWhile(chars, p + 1, class)
    ELSE p

Scanned(kind, tok, p, err) == [kind |-> kind, tok |-> tok, pos |-> p, err |-> err]

\* the characters that map to one token each (parser.rs:131-139)
SingleCharToken(ch) ==
    CASE ch = "," -> Comma
      [] ch = "(" -> LParen
      [] ch = ")" -> RParen
      [] ch = "+" -> Plus
      [] ch = "-" -> Minus
      [] ch = "*" -> Mult
      [] ch = "/" -> Div
      [] ch = "=" -> Eq

scan_lt_arms_swapped(chars, p) ==
    IF p + 1 < Len(chars) /\ chars[p + 2] = "=" THEN Scanned("token", Neq, p + 2, NoError)
    ELSE IF p + 1 < Len(chars) /\ chars[p + 2] = ">" THEN Scanned("token", LtEq, p + 2, NoError)
    ELSE Scanned("token", Lt, p + 1, NoError)

\* the '<' arm of next_token, chars[p + 1] being '<': consume it, then peek
scan_lt(chars, p) ==
    IF p + 1 < Len(chars) /\ chars[p + 2] = "=" THEN Scanned("token", LtEq, p + 2, NoError)
    ELSE IF p + 1 < Len(chars) /\ chars[p + 2] = ">" THEN Scanned("token", Neq, p + 2, NoError)
    ELSE Scanned("token", Lt, p + 1, NoError)

scan_gt_consumes_next(chars, p) ==
    IF p + 1 < Len(chars) /\ chars[p + 2] = "=" THEN Scanned("token", GtEq, p + 2, NoError)
    ELSE IF p + 1 < Len(chars) THEN Scanned("token", Gt, p + 2, NoError)
    ELSE Scanned("token", Gt, p + 1, NoError)

\* the '>' arm of next_token, chars[p + 1] being '>'
scan_gt(chars, p) ==
    IF p + 1 < Len(chars) /\ chars[p + 2] = "=" THEN Scanned("token", GtEq, p + 2, NoError)
    ELSE Scanned("token", Gt, p + 1, NoError)

classify_ignoring_case(s) ==
    IF to_uppercase(s) \in KEYWORDS THEN Keyword(s) ELSE Identifier(s)

\* if self.keywords.contains(&s) { Keyword(s) } else { Identifier(s) }
classify(s) == IF s \in KEYWORDS THEN Keyword(s) ELSE Identifier(s)

\* Tokenizer::next_token with p characters of chars consumed: Ok(Some(tok))
\* with the new position, Ok(None) at the end of the input, or Err
Tokenizer_next_token(chars, p) ==
    IF p >= Len(chars) THEN Scanned("none", NoToken, p, NoError)
    ELSE LET ch == chars[p + 1] IN
      CASE ch \in WhitespaceChars -> Scanned("token", Whitespace, p + 1, NoError)
        [] ch \in IdentStartChars ->
             LET e == ConsumeWhile(chars, p, IdentPartChars)
                 s == SubSeq(chars, p + 1, e)
             IN  Scanned("token", classify(s), e, NoError)
        [] ch \in DigitChars ->
             LET e == ConsumeWhile(chars, p, DigitChars)
             IN  Scanned("token", Number(SubSeq(chars, p + 1, e)), e, NoError)
        [] ch \in {",", "(", ")", "+", "-", "*", "/", "="} ->
             Scanned("token", SingleCharToken(ch), p + 1, NoError)
        [] ch = "<" -> scan_lt(chars, p)
        [] ch = ">" -> scan_gt(chars, p)
        [] OTHER ->
             Scanned("error", NoToken, p,
                     TokenizerError("unhandled char in tokenizer", CharOf(ch)))

FilterWhitespace_keeps_all(ts) == ts

\* tokens.into_iter().filter(|t| t is not Whitespace).collect()
FilterWhitespace(ts) == SelectSeq(ts, LAMBDA t : t # Whitespace)

\* The outcome of Tokenizer::tokenize as a function of the query: Ok(tokens),
\* Err(e), or no return at all when a call of next_token yields a token
\* without consuming a character (the loop then repeats that call for ever).
Tokenized(status, ts, err) == [status |-> status, tokens |-> ts, err |-> err]

RECURSIVE tokenize_loop(_, _, _)
tokenize_loop(chars, p, acc) ==
    LET r == Tokenizer_next_token(chars, p) IN
    CASE r.kind = "none"  -> Tokenized("ok", FilterWhitespace(acc), NoError)
      [] r.kind = "error" -> Tokenized("err", <<>>, r.err)
      [] r.kind = "token" ->
           IF r.pos = p THEN Tokenized("diverges", <<>>, NoError)
           ELSE tokenize_loop(chars, r.pos, Append(acc, r.tok))

tokenize(chars) == tokenize_loop(chars, 0, <<>>)

-----------------------------------------------------------------------------
(* str::parse::<i64> on a digit text.  The value is kept as the decimal     *)
(* digits without leading zeros; the text is out of range when it has more  *)
(* digits than i64::MAX or as many and is larger.  (Texts with a sign or    *)
(* a non-digit are not produced by the tokenizer; they are rejected here.)  *)

I64Max == <<"9","2","2","3","3","7","2","0","3","6","8","5","4","7","7","5","8","0","7">>

RECURSIVE StripZeros(_)
StripZeros(s) ==
    IF Len(s) > 1 /\ Head(s) = "0" THEN StripZeros(Tail(s)) ELSE s

DigitValue(c) == IndexIn(DigitSeq, c) - 1

\* a <= b for digit texts of the same length
RECURSIVE DigitsLeq(_, _)
DigitsLeq(a, b) ==
    IF a = <<>> THEN TRUE
    ELSE IF Head(a) = Head(b) THEN DigitsLeq(Tail(a), Tail(b))
    ELSE DigitValue(Head(a)) < DigitValue(Head(b))

parse_i64(s) ==
    IF s = <<>> \/ \E i \in DOMAIN s : s[i] \notin DigitChars
    THEN [ok |-> FALSE, val |-> <<>>]
    ELSE LET d == StripZeros(s) IN
         IF Len(d) < Len(I64Max) \/ (Len(d) = Len(I64Max) /\ DigitsLeq(d, I64Max))
         THEN [ok |-> TRUE, val |-> d]
         ELSE [ok |-> FALSE, val |-> <<>>]

-----------------------------------------------------------------------------
(* AST nodes (super::sql), by shape *)

\* Option::None, and the value of a result that carries none
NoNode == [node |-> "None"]

SQLIdentifier(id) == [node |-> "SQLIdentifier", id |-> id]
SQLLiteralInt(n)  == [node |-> "SQLLiteralInt", value |-> n]
SQLFunction(id, args) == [node |-> "SQLFunction", id |-> id, args |-> args]
SQLBinaryExpr(left, op, right) ==
    [node |-> "SQLBinaryExpr", left |-> left, op |-> op, right |-> right]
SQLSelect(projection, selection, relation, limit, order) ==
    [node |-> "SQLSelect", projection |-> projection, selection |-> selection,
     relation |-> relation, limit |-> limit, order |-> order]
SQLCreateTable(name, columns) ==
    [node |-> "SQLCreateTable", name |-> name, columns |-> columns]
SQLColumnDef(name, data_type, allow_null) ==
    [name |-> name, data_type |-> data_type, allow_null |-> allow_null]

SQLType_Double == [type |-> "Double", n |-> <<>>]
SQLType_Varchar(n) == [type |-> "Varchar", n |-> n]

-----------------------------------------------------------------------------
(* Parser.  self = [tokens, index, raised, trail]: tokens and index are the *)
(* fields of struct Parser; raised and trail are histories of the model,    *)
(* the errors created so far in the order of their creation and the writes  *)
(* of index so far in the order they happened.  A function returning Result *)
(* is an operator returning [ok, self, val, err] with self the parser after *)
(* the call.                                                                *)

Parser_new(ts) == [tokens |-> ts, index |-> 0, raised |-> <<>>, trail |-> <<>>]

Ok(self, v) == [ok |-> TRUE, self |-> self, val |-> v, err |-> NoError]
\* Err(e) with e created here
Raise(self, e) ==
    [ok |-> FALSE, self |-> [self EXCEPT !.raised = Append(@, e)], val |-> NoNode, err |-> e]

\* self.index += 1
Advance(self) ==
    [self EXCEPT !.index = @ + 1,
                 !.trail = Append(@, [kind |-> "advance", index |-> self.index + 1,
                                      matched |-> 0])]

\* the entry of parse_expr or the start of a loop iteration, with the cursor
\* at that moment: a mark in the trail, the parser itself is unchanged
Step(self, kind) ==
    [self EXCEPT !.trail = Append(@, [kind |-> kind, index |-> self.index,
                                      matched |-> 0])]

\* self.index = index, after `matched` keywords of parse_keywords had matched
Restore(self, index, matched) ==
    [self EXCEPT !.index = index,
                 !.trail = Append(@, [kind |-> "restore", index |-> index,
                                      matched |-> matched])]

peek_token(self) ==
    IF self.index < Len(self.tokens) THEN self.tokens[self.index + 1] ELSE NoToken

Parser_next_token(self) ==
    IF self.index < Len(self.tokens)
    THEN [self |-> Advance(self), tok |-> self.tokens[self.index + 1]]
    ELSE [self |-> self, tok |-> NoToken]

prev_token(self) ==
    IF self.index > 0 THEN self.tokens[self.index] ELSE NoToken

parse_keyword(self, expected) ==
    LET t == peek_token(self)
        b == t.type = "Keyword" /\ eq_ignore_ascii_case(expected, t.text)
    IN  [self |-> IF b THEN Advance(self) ELSE self, val |-> b]

\* the for loop of parse_keywords from the i-th keyword on; index is the
\* cursor saved on entry
RECURSIVE parse_keywords_loop(_, _, _, _)
parse_keywords_loop_keeps_cursor(self, keywords, i, index) ==
    IF i > Len(keywords) THEN [self |-> self, val |-> TRUE]
    ELSE LET k == parse_keyword(self, keywords[i]) IN
         IF ~k.val
         THEN [self |-> k.self, val |-> FALSE]
         ELSE parse_keywords_loop(k.self, keywords, i + 1, index)

parse_keywords_loop_rewinds(self, keywords, i, index) ==
    IF i > Len(keywords) THEN [self |-> self, val |-> TRUE]
    ELSE LET k == parse_keyword(self, keywords[i]) IN
         IF ~k.val
         THEN [self |-> Restore(k.self, 0, i - 1), val |-> FALSE]
         ELSE parse_keywords_loop(k.self, keywords, i + 1, index)

parse_keywords_loop(self, keywords, i, index) ==
    IF i > Len(keywords) THEN [self |-> self, val |-> TRUE]
    ELSE LET k == parse_keyword(self, keywords[i]) IN
         IF ~k.val
         THEN [self |-> Restore(k.self, index, i - 1), val |-> FALSE]
         ELSE parse_keywords_loop(k.self, keywords, i + 1, index)

parse_keywords(self, keywords) == parse_keywords_loop(self, keywords, 1, self.index)

\* `let x = e; ...`: the rest of the function body, k, on the value of e
Then(x, k(_)) == k(x)

\* `e?`: the Err of r returned as it is, or the rest of the function body, k,
\* on the Ok r
Try(r, k(_)) == IF r.ok THEN k(r) ELSE r

consume_token(self, expected) ==
    Then(Parser_next_token(self), LAMBDA n :
      IF n.tok # NoToken /\ n.tok = expected
      THEN Ok(n.self, NoNode)
      ELSE Raise(n.self, ParserError("expected token but was", expected, prev_token(n.self))))

\* s.parse::<i64>() on the Number token n.tok just consumed
literal_int_of(n) ==
    Then(parse_i64(n.tok.text), LAMBDA v :
      IF v.ok THEN Ok(n.self, v.val)
      ELSE Raise(n.self, ParserError("Could not parse as i64", n.tok, NoToken)))

parse_literal_int(self) ==
    Then(Parser_next_token(self), LAMBDA n :
      IF n.tok.type = "Number"
      THEN literal_int_of(n)
      ELSE Raise(n.self, ParserError("Expected literal int", NoToken, NoToken)))

parse_data_type(self) ==
    Then(Parser_next_token(self), LAMBDA n :
      IF n.tok.type = "Keyword"
      THEN CASE to_uppercase(n.tok.text) = KW_DOUBLE -> Ok(n.self, SQLType_Double)
             [] to_uppercase(n.tok.text) = KW_VARCHAR ->
                  Try(consume_token(n.self, LParen), LAMBDA l :
                  Try(parse_literal_int(l.self), LAMBDA v :
                  Try(consume_token(v.self, RParen), LAMBDA r :
                  Ok(r.self, SQLType_Varchar(v.val)))))
             [] OTHER -> Raise(n.self, ParserError("Invalid data type", NoToken, NoToken))
      ELSE Raise(n.self, ParserError("Invalid data type", NoToken, NoToken)))

column_nullability_takes_not(self) ==
    Then(parse_keyword(self, KW_NOT), LAMBDA nn :
      IF nn.val THEN parse_keyword(nn.self, KW_NULL).self
      ELSE parse_keyword(nn.self, KW_NULL).self)

\* the optional NOT NULL / NULL of a column definition: the parser after it
column_nullability(self) ==
    Then(parse_keywords(self, <<KW_NOT, KW_NULL>>), LAMBDA nn :
      IF nn.val THEN nn.self ELSE parse_keyword(nn.self, KW_NULL).self)

\* columns.push(SQLColumnDef { .. })
push_column_front(columns, def) == <<def>> \o columns

push_column(columns, def) == Append(columns, def)

column_end_accepts_eof(self) ==
    CASE peek_token(self) = Comma -> "comma"
      [] peek_token(self) \in {RParen, NoToken} -> "rparen"
      [] OTHER -> "other"

\* match self.peek_token() after a column definition: the arm taken
column_end(self) ==
    CASE peek_token(self) = Comma -> "comma"
      [] peek_token(self) = RParen -> "rparen"
      [] OTHER -> "other"

\* the `loop` of parse_create that parses the column definitions, with the
\* columns pushed so far
RECURSIVE parse_create_loop(_, _)
parse_create_loop(self, columns) ==
    Then(Parser_next_token(Step(self, "column_loop")), LAMBDA n :
      IF n.tok.type = "Identifier"
      THEN Then(parse_data_type(n.self), LAMBDA d :
             IF d.ok
             THEN Then(column_nullability(d.self), LAMBDA s :
                    CASE column_end(s) = "comma" ->
                           parse_create_loop(Parser_next_token(s).self,
                               push_column(columns, SQLColumnDef(n.tok.text, d.val, TRUE)))
                      [] column_end(s) = "rparen" ->
                           Ok(Parser_next_token(s).self,
                              push_column(columns, SQLColumnDef(n.tok.text, d.val, TRUE)))
                      [] OTHER ->
                           Raise(s, ParserError("Expected ',' or ')' after column definition",
                                                NoToken, NoToken)))
             ELSE Raise(d.self, ParserError("Error parsing data type in column definition",
                                            NoToken, NoToken)))
      ELSE Raise(n.self, ParserError("Error parsing column name", NoToken, NoToken)))

parse_create(self) ==
    Then(parse_keywords(self, <<KW_EXTERNAL, KW_TABLE>>), LAMBDA k :
      IF k.val
      THEN Then(Parser_next_token(k.self), LAMBDA n :
             IF n.tok.type = "Identifier"
             THEN Try(consume_token(n.self, LParen), LAMBDA l :
                  Try(parse_create_loop(l.self, <<>>), LAMBDA c :
                  Ok(c.self, SQLCreateTable(n.tok.text, c.val))))
             ELSE Raise(n.self, ParserError("Unexpected token after CREATE EXTERNAL TABLE",
                                            peek_token(n.self), NoToken)))
      ELSE Raise(k.self, ParserError("Unexpected token after CREATE", peek_token(k.self),
                                     NoToken)))

parse_limit(self) ==
    Then(parse_keyword(self, KW_ALL), LAMBDA a :
      IF a.val THEN Ok(a.self, NoNode)
      ELSE Try(parse_literal_int(a.self), LAMBDA v : Ok(v.self, SQLLiteralInt(v.val))))

get_precedence_without_arithmetic(tok) ==
    CASE tok \in {Eq, Lt, LtEq, Neq, Gt, GtEq} -> 20
      [] OTHER -> 0

get_precedence(tok) ==
    CASE tok \in {Eq, Lt, LtEq, Neq, Gt, GtEq} -> 20
      [] tok \in {Plus, Minus} -> 30
      [] tok \in {Mult, Div} -> 40
      [] OTHER -> 0

get_next_precedence(self) ==
    IF self.index < Len(self.tokens)
    THEN get_precedence(self.tokens[self.index + 1])
    ELSE 0

\* SQLOperator of a comparison token; "" stands for the Err of the `_` arm
to_sql_operator(tok) ==
    CASE tok = Eq   -> "EQ"
      [] tok = Lt   -> "LT"
      [] tok = LtEq -> "LTEQ"
      [] tok = Gt   -> "GT"
      [] tok = GtEq -> "GTEQ"
      [] OTHER -> ""

\* the end of parse_select (`if let Some(next_token) = self.peek_token()`):
\* select is the node built from the clauses parsed
select_end_keeps_trailing(self, select) == Ok(self, select)

select_end_names_previous(self, select) ==
    IF peek_token(self) # NoToken
    THEN Raise(self, ParserError("Unexpected token at end of SELECT", prev_token(self), NoToken))
    ELSE Ok(self, select)

select_end(self, select) ==
    IF peek_token(self) # NoToken
    THEN Raise(self, ParserError("Unexpected token at end of SELECT", peek_token(self), NoToken))
    ELSE Ok(self, select)

RECURSIVE parse_expr(_, _)
RECURSIVE parse_expr_loop(_, _, _)
RECURSIVE parse_prefix(_)
RECURSIVE parse_infix(_, _, _)
RECURSIVE parse_select(_)
RECURSIVE helper(_)
RECURSIVE parse_expr_list_loop(_, _)

helper_keeps_comma(self) ==
    Try(parse_expr(self, 0), LAMBDA e :
      IF e.self.index < Len(e.self.tokens) /\ e.self.tokens[e.self.index + 1] = Comma
      THEN Ok(e.self, <<e.val, TRUE>>)
      ELSE Ok(e.self, <<e.val, FALSE>>))

\* val is <<expr, more>>
helper(self) ==
    Try(parse_expr(self, 0), LAMBDA e :
      IF e.self.index < Len(e.self.tokens) /\ e.self.tokens[e.self.index + 1] = Comma
      THEN Ok(Advance(e.self), <<e.val, TRUE>>)
      ELSE Ok(e.self, <<e.val, FALSE>>))

\* the `loop` of parse_expr_list with the expressions pushed so far
parse_expr_list_loop(self, expr_list) ==
    Try(helper(Step(self, "list_loop")), LAMBDA h :
      IF ~h.val[2]
      THEN Ok(h.self, Append(expr_list, h.val[1]))
      ELSE parse_expr_list_loop(h.self, Append(expr_list, h.val[1])))

parse_expr_list(self) == parse_expr_list_loop(self, <<>>)

\* `if self.parse_keyword(k) { Some(Box::new(self.parse_expr(0)?)) } else { None }`
optional_clause(self, k) ==
    Then(parse_keyword(self, k), LAMBDA f :
      IF f.val THEN parse_expr(f.self, 0) ELSE Ok(f.self, NoNode))

\* `if self.parse_keyword("LIMIT") { self.parse_limit()? } else { None }`
optional_limit(self) ==
    Then(parse_keyword(self, KW_LIMIT), LAMBDA l :
      IF l.val THEN parse_limit(l.self) ELSE Ok(l.self, NoNode))

parse_select(self) ==
    Try(parse_expr_list(self), LAMBDA projection :
    Try(optional_clause(projection.self, KW_FROM), LAMBDA relation :
    Try(optional_clause(relation.self, KW_WHERE), LAMBDA selection :
    Try(optional_limit(selection.self), LAMBDA limit :
    select_end(limit.self, SQLSelect(projection.val, selection.val, relation.val,
                                     limit.val, NoNode))))))

\* the Identifier arm of parse_prefix, n.tok being the identifier consumed
prefix_identifier(n) ==
    IF peek_token(n.self) = LParen
    THEN Try(parse_expr_list(Parser_next_token(n.self).self), LAMBDA args :
           Ok(Parser_next_token(args.self).self, SQLFunction(n.tok.text, args.val)))
    ELSE Ok(n.self, SQLIdentifier(n.tok.text))

prefix_number_peeked(n) ==
    Then(parse_i64(n.tok.text), LAMBDA v :
      IF v.ok THEN Ok([n.self EXCEPT !.index = @ - 1], SQLLiteralInt(v.val))
      ELSE Raise(n.self, ParserError("Could not parse as i64", n.tok, NoToken)))

\* the Number arm of parse_prefix, n.tok being the number consumed
prefix_number(n) ==
    Then(parse_i64(n.tok.text), LAMBDA v :
      IF v.ok THEN Ok(n.self, SQLLiteralInt(v.val))
      ELSE Raise(n.self, ParserError("Could not parse as i64", n.tok, NoToken)))

parse_prefix(self) ==
    Then(Parser_next_token(self), LAMBDA n :
      CASE n.tok = NoToken ->
             Raise(n.self, ParserError("Prefix parser expected a keyword but hit EOF",
                                       NoToken, NoToken))
        [] n.tok.type = "Keyword" ->
             CASE to_uppercase(n.tok.text) = KW_SELECT -> parse_select(n.self)
               [] to_uppercase(n.tok.text) = KW_CREATE -> parse_create(n.self)
               [] OTHER -> Raise(n.self, ParserError("No prefix parser for keyword",
                                                     n.tok, NoToken))
        [] n.tok.type = "Identifier" -> prefix_identifier(n)
        [] n.tok.type = "Number" -> prefix_number(n)
        [] OTHER ->
             Raise(n.self, ParserError("Prefix parser expected a keyword but found",
                                       n.tok, NoToken)))

\* val is the Option<ASTNode>: NoNode for None
parse_infix_lower_floor(self, expr, precedence) ==
    Then(Parser_next_token(self), LAMBDA n :
      CASE n.tok = NoToken -> Ok(n.self, NoNode)
        [] n.tok \in {Eq, Gt, GtEq, Lt, LtEq} ->
             Try(parse_expr(n.self, precedence - 1), LAMBDA right :
               Ok(right.self, SQLBinaryExpr(expr, to_sql_operator(n.tok), right.val)))
        [] OTHER -> Raise(n.self, ParserError("No infix parser for token", n.tok, NoToken)))

parse_infix(self, expr, precedence) ==
    Then(Parser_next_token(self), LAMBDA n :
      CASE n.tok = NoToken -> Ok(n.self, NoNode)
        [] n.tok \in {Eq, Gt, GtEq, Lt, LtEq} ->
             Try(parse_expr(n.self, precedence), LAMBDA right :
               Ok(right.self, SQLBinaryExpr(expr, to_sql_operator(n.tok), right.val)))
        [] OTHER -> Raise(n.self, ParserError("No infix parser for token", n.tok, NoToken)))

\* the `loop` of parse_expr with the expression built so far
parse_expr_loop(self, precedence, expr) ==
    Then(get_next_precedence(self), LAMBDA next_precedence :
      IF precedence >= next_precedence THEN Ok(self, expr)
      ELSE Try(parse_infix(Step(self, "expr_loop"), expr, next_precedence), LAMBDA i :
             parse_expr_loop(i.self, precedence, IF i.val # NoNode THEN i.val ELSE expr)))

parse_expr(self, precedence) ==
    Try(parse_prefix(Step(self, "parse_expr")), LAMBDA p :
      parse_expr_loop(p.self, precedence, p.val))

parse(self) == parse_expr(self, 0)

\* the result of Parser::parse_sql on the outcome t of tokenize: the
\* TokenizerError of tokenize, or the result of parse on its tokens (no value
\* when tokenize does not return)
parse_tokenized(t) ==
    CASE t.status = "ok"  -> parse(Parser_new(t.tokens))
      [] t.status = "err" -> Raise(Parser_new(<<>>), t.err)
      [] OTHER -> [ok |-> FALSE, self |-> Parser_new(<<>>), val |-> NoNode, err |-> NoError]

parse_sql(sql) == parse_tokenized(tokenize(sql))

-----------------------------------------------------------------------------
(* The inputs.  TokSpec scans every string of at most MaxQueryLen           *)
(* characters of QueryAlphabet.  Spec parses token sequences handed to      *)
(* Parser::new: every sequence of at most MaxExprLen tokens of              *)
(* ExprAlphabet, and longer statements assembled from clause fragments,     *)
(* well-formed and malformed.                                               *)

SeqsUpTo(S, n) == UNION {[1..k -> S] : k \in 0..n}

RECURSIVE Flatten(_)
Flatten(ss) == IF ss = <<>> THEN <<>> ELSE Head(ss) \o Flatten(Tail(ss))

\* the sequences of ss joined by sep
RECURSIVE Join(_, _)
Join(ss, sep) ==
    IF ss = <<>> THEN <<>>
    ELSE IF Len(ss) = 1 THEN Head(ss)
    ELSE Head(ss) \o sep \o Join(Tail(ss), sep)

QueryAlphabet == {"I", "N", "1", "_", "@", " ", "\n", ",", "<", "=", "#"}

\* words in both cases, and the comparison operators
WordAlphabet == {"I", "N", "i", "n", "_", "1", " "}
OperatorAlphabet == {"<", ">", "=", "1"}

Queries ==
    SeqsUpTo(QueryAlphabet, MaxQueryLen)
      \cup SeqsUpTo(WordAlphabet, MaxQueryLen)
      \cup SeqsUpTo(OperatorAlphabet, MaxQueryLen)

kSELECT   == Keyword(KW_SELECT)
kFROM     == Keyword(KW_FROM)
kWHERE    == Keyword(KW_WHERE)
kLIMIT    == Keyword(KW_LIMIT)
kALL      == Keyword(KW_ALL)
kCREATE   == Keyword(KW_CREATE)
kEXTERNAL == Keyword(KW_EXTERNAL)
kTABLE    == Keyword(KW_TABLE)
kVARCHAR  == Keyword(KW_VARCHAR)
kDOUBLE   == Keyword(KW_DOUBLE)
kNOT      == Keyword(KW_NOT)
kNULL     == Keyword(KW_NULL)
idA == Identifier(<<"a">>)
idB == Identifier(<<"b">>)
idId == Identifier(<<"i", "d">>)
idSqrt == Identifier(<<"s", "q", "r", "t">>)
idFoo == Identifier(<<"f", "o", "o">>)
idT == Identifier(<<"t">>)
num1 == Number(<<"1">>)
num05 == Number(<<"0", "5">>)
\* i64::MAX + 1
numBig == Number(<<"9","2","2","3","3","7","2","0","3","6","8","5","4","7","7","5","8","0","8">>)

ExprAlphabet == {kSELECT, kFROM, kLIMIT, idA, num1, Comma, LParen, RParen, Eq, Plus}

ExprInputs == SeqsUpTo(ExprAlphabet, MaxExprLen)

ItemFrags == {<<idA>>, <<idB, Eq, num1>>, <<idSqrt, LParen, idId, RParen>>,
              <<idSqrt, LParen, idA, Comma, idB, RParen>>, <<idSqrt, LParen, idId>>}
FromFrags == {<<>>, <<kFROM, idFoo>>, <<kFROM>>}
WhereFrags == {<<>>, <<kWHERE, idA, Eq, num1>>, <<kWHERE, idA, Plus, num1>>}
LimitFrags == {<<>>, <<kLIMIT, num1>>, <<kLIMIT, num05>>, <<kLIMIT, kALL>>, <<kLIMIT>>,
               <<kLIMIT, idA>>, <<kLIMIT, numBig>>}
TrailFrags == {<<>>, <<RParen>>, <<kWHERE, idA>>, <<kLIMIT, num1>>}

SelectInputs ==
    {<<kSELECT>> \o Join(items, <<Comma>>) \o f \o w \o l \o tr :
        items \in SeqsUpTo(ItemFrags, MaxItems), f \in FromFrags, w \in WhereFrags,
        l \in LimitFrags, tr \in TrailFrags}

ColDefFrags == {<<idA, kDOUBLE>>, <<idB, kVARCHAR, LParen, num1, RParen>>,
                <<idA, kDOUBLE, kNOT, kNULL>>, <<idB, kDOUBLE, kNULL>>,
                <<idA, kDOUBLE, kNOT>>, <<idA, kVARCHAR, kDOUBLE>>,
                <<idA, kVARCHAR, LParen, idA, RParen>>, <<idA, kVARCHAR, LParen, num1>>,
                <<idA>>, <<>>}
ColSepFrags == {<<Comma>>, <<RParen>>, <<>>}
ColChunks == {d \o sep : d \in ColDefFrags, sep \in ColSepFrags}
CreateHead == <<kCREATE, kEXTERNAL, kTABLE, idT, LParen>>
BadCreateHeads == {<<kCREATE, kTABLE, idT, LParen>>,
                   <<kCREATE, kEXTERNAL, kTABLE, LParen>>,
                   <<kCREATE, kEXTERNAL, kTABLE, idT>>}

\* CREATE EXTERNAL TABLE t (a VARCHAR(1) NOT NULL, b DOUBLE NULL) and what is
\* left of it when the input ends early
FullCreate ==
    CreateHead \o <<idA, kVARCHAR, LParen, num1, RParen, kNOT, kNULL, Comma,
                    idB, kDOUBLE, kNULL, RParen>>
TruncatedCreates == {SubSeq(FullCreate, 1, n) : n \in 1..Len(FullCreate)}

CreateInputs ==
    {CreateHead \o Flatten(cs) : cs \in SeqsUpTo(ColChunks, MaxCols)}
      \cup {h \o c : h \in BadCreateHeads, c \in ColChunks}
      \cup TruncatedCreates

\* two operands joined by an operator at the top level, in a projection, a
\* function argument, a relation and a selection, and chains of three operands
CompareOps == {Eq, Lt, LtEq, Gt, GtEq}
OtherOps == {Plus, Minus, Mult, Div, Neq}
OperatorInputs ==
    {<<idA, o1, idB, o2, num1>> : o1, o2 \in CompareOps \cup OtherOps}
      \cup {pre \o <<idA, o, idB>> \o post :
               pre \in {<<>>, <<kSELECT>>, <<kSELECT, idA, kFROM>>, <<kSELECT, idA, kWHERE>>},
               o \in CompareOps \cup OtherOps,
               post \in {<<>>, <<idA>>, <<kLIMIT, num1>>}}
      \cup {<<idSqrt, LParen, idA, o, idB, RParen>> : o \in CompareOps \cup OtherOps}

ParserInputs == ExprInputs \cup SelectInputs \cup CreateInputs \cup OperatorInputs

-----------------------------------------------------------------------------
(* The state machine.  phase is the position of parse_sql: "scanning" inside *)
(* the loop of tokenize, "ready" with the Parser constructed on tokens,      *)
(* "parsed" after parse returned, "failed" after tokenize returned Err.      *)

NoResult == [ok |-> FALSE, self |-> Parser_new(<<>>), val |-> NoNode, err |-> NoError]

\* Tokenizer::new(&sql) and the first two statements of tokenize
InitTok ==
    /\ query \in Queries
    /\ pos = 0
    /\ raw = <<>>
    /\ phase = "scanning"
    /\ tokens = <<>>
    /\ result = NoResult

\* Parser::new(&tokens) on a token sequence given by the caller
Init ==
    /\ query = <<>>
    /\ pos = 0
    /\ raw = <<>>
    /\ phase = "ready"
    /\ tokens \in ParserInputs
    /\ result = NoResult

\* one iteration of `while let Some(token) = self.next_token(&mut peekable)?`
ScanToken ==
    /\ phase = "scanning"
    /\ Len(raw) < MaxRawTokens
    /\ LET r == Tokenizer_next_token(query, pos) IN
         /\ r.kind = "token"
         /\ raw' = Append(raw, r.tok)
         /\ pos' = r.pos
    /\ UNCHANGED <<query, phase, tokens, result>>

\* next_token returned Err: tokenize and parse_sql return it
ScanError ==
    /\ phase = "scanning"
    /\ LET r == Tokenizer_next_token(query, pos) IN
         /\ r.kind = "error"
         /\ result' = Raise(Parser_new(<<>>), r.err)
    /\ phase' = "failed"
    /\ UNCHANGED <<query, pos, raw, tokens>>

\* next_token returned None: the loop ends, tokenize returns the filtered
\* tokens and parse_sql builds the Parser on them
ScanEnd ==
    /\ phase = "scanning"
    /\ Tokenizer_next_token(query, pos).kind = "none"
    /\ tokens' = FilterWhitespace(raw)
    /\ phase' = "ready"
    /\ UNCHANGED <<query, pos, raw, result>>

\* parser.parse()
Parse ==
    /\ phase = "ready"
    /\ result' = parse(Parser_new(tokens))
    /\ phase' = "parsed"
    /\ UNCHANGED <<query, pos, raw, tokens>>

Next == Parse

Spec == Init /\ [][Next]_vars

NextTok == ScanToken \/ ScanError \/ ScanEnd \/ Parse

TokSpec == InitTok /\ [][NextTok]_vars

-----------------------------------------------------------------------------
(* Claims *)

\* the parser on the tokens of the state with its cursor at i
ParserAt(i) == [Parser_new(tokens) EXCEPT !.index = i]

Positions == 0..Len(tokens)

\* tokens[i + 1] is an Identifier followed by `(`
IsCallAt(i) ==
    /\ i + 2 <= Len(tokens)
    /\ tokens[i + 1].type = "Identifier"
    /\ tokens[i + 2] = LParen

\* the argument list of the call at i
CallArgs(i) == parse_expr_list(ParserAt(i + 2))

\* C1: wherever an Identifier is followed by `(` and an argument list, and the
\* token after the argument list is absent or is not `)`, the prefix parser
\* fails; when the call starts the input, parse fails.
C1_UnterminatedCallFails ==
    phase = "parsed" =>
      \A i \in Positions :
        (IsCallAt(i) /\ CallArgs(i).ok /\ peek_token(CallArgs(i).self) # RParen)
          => /\ ~parse_prefix(ParserAt(i)).ok
             /\ (i = 0 => ~result.ok)

\* C2: every step of the scan loop that pushes a token consumes at least one
\* character of the query.
C2_ScanStepConsumes == [][ScanToken => pos' > pos]_vars

\* C3 as claimed: a successful parse of a statement of either kind leaves the
\* cursor at the token count.
C3_StatementConsumesAll ==
    (phase = "parsed" /\ result.ok /\ result.val.node \in {"SQLSelect", "SQLCreateTable"})
      => result.self.index = Len(tokens)

\* C3 as amended: a successful parse whose result is a SELECT statement leaves
\* the cursor at the token count (after CREATE EXTERNAL TABLE the tokens that
\* follow the closing `)` stay unconsumed).
C3_SelectConsumesAll ==
    (phase = "parsed" /\ result.ok /\ result.val.node = "SQLSelect")
      => result.self.index = Len(tokens)

C3_Witness ==
    /\ phase = "parsed"
    /\ result.ok
    /\ result.val.node = "SQLSelect"
    /\ result.val.relation # NoNode
    /\ result.val.limit # NoNode
    /\ result.self.index = Len(tokens)

\* C4: parse_select, started at any position, returns a SELECT node only with
\* the cursor at the end of the input, and its error for a token left after
\* the clauses names the token at the cursor.
C4_SelectTrailingTokenFails ==
    phase = "parsed" =>
      \A i \in Positions :
        LET r == parse_select(ParserAt(i)) IN
          /\ r.ok => (r.val.node = "SQLSelect" /\ r.self.index = Len(tokens))
          /\ (~r.ok /\ r.err.msg = "Unexpected token at end of SELECT")
               => /\ r.self.index < Len(tokens)
                  /\ r.err = ParserError("Unexpected token at end of SELECT",
                                         tokens[r.self.index + 1], NoToken)

C4_Witness ==
    /\ phase = "parsed"
    /\ Len(tokens) >= 3
    /\ tokens[1] = kSELECT
    /\ ~result.ok
    /\ result.err = ParserError("Unexpected token at end of SELECT", RParen, NoToken)
    /\ tokens[result.self.index] = num1

\* C5: a failed parse returns the first error created, and no other error was
\* created on the way.
C5_FirstErrorReturned ==
    (phase = "parsed" /\ ~result.ok) => result.self.raised = <<result.err>>

\* the token at position j (1-based), NoToken beyond the end
TokenAt(j) == IF j >= 1 /\ j <= Len(tokens) THEN tokens[j] ELSE NoToken

IsKeyword(t, k) == t.type = "Keyword" /\ eq_ignore_ascii_case(k, t.text)

Indices(n) == [k \in 1..n |-> k]

\* the number a digit text of at most 9 digits denotes
RECURSIVE NatOf(_)
NatOf(s) ==
    IF s = <<>> THEN 0
    ELSE 10 * NatOf(SubSeq(s, 1, Len(s) - 1)) + DigitValue(s[Len(s)])

\* n is the integer the Number token t denotes, written without leading zeros
DenotedBy(n, t) ==
    /\ t.type = "Number"
    /\ Len(t.text) <= 9
    /\ Len(n) >= 1
    /\ (Len(n) > 1 => Head(n) # "0")
    /\ NatOf(n) = NatOf(t.text)

\* the positions among the first idx tokens at which a column definition of
\* CREATE EXTERNAL TABLE name ( ... starts: after the `(` and after each `,`
ColumnStarts(idx) ==
    SelectSeq(Indices(idx), LAMBDA j : j = 6 \/ (j > 6 /\ tokens[j - 1] = Comma))

\* the column type t is the one written at position j
TypeWrittenAt(t, j) ==
    \/ IsKeyword(TokenAt(j), KW_DOUBLE) /\ t = SQLType_Double
    \/ /\ IsKeyword(TokenAt(j), KW_VARCHAR)
       /\ TokenAt(j + 1) = LParen
       /\ t.type = "Varchar"
       /\ DenotedBy(t.n, TokenAt(j + 2))
       /\ TokenAt(j + 3) = RParen

\* the position of the last token of the type written at position j
TypeEnd(j) == IF IsKeyword(TokenAt(j), KW_VARCHAR) THEN j + 3 ELSE j

\* the tokens at positions a..b are nothing, NULL, or NOT NULL
NullabilityWritten(a, b) ==
    \/ b = a - 1
    \/ b = a /\ IsKeyword(TokenAt(a), KW_NULL)
    \/ b = a + 1 /\ IsKeyword(TokenAt(a), KW_NOT) /\ IsKeyword(TokenAt(b), KW_NULL)

\* C6: a successful parse of CREATE EXTERNAL TABLE name ( d1, ..., dn ) yields
\* the node of that name with one column per definition in source order, each
\* with the name and type written, each definition followed by `,` or by the
\* closing `)`, n >= 1; no accepted list is empty or ends in `, )`.
C6_CreateColumns ==
    (phase = "parsed" /\ result.ok /\ result.val.node = "SQLCreateTable") =>
      LET idx == result.self.index
          cols == result.val.columns
          starts == ColumnStarts(idx)
      IN  /\ IsKeyword(tokens[1], KW_CREATE)
          /\ IsKeyword(tokens[2], KW_EXTERNAL)
          /\ IsKeyword(tokens[3], KW_TABLE)
          /\ tokens[4] = Identifier(result.val.name)
          /\ tokens[5] = LParen
          /\ tokens[6] # RParen
          /\ tokens[idx] = RParen
          /\ Len(cols) >= 1
          /\ Len(cols) = Len(starts)
          /\ \A k \in 1..Len(cols) :
               /\ tokens[starts[k]] = Identifier(cols[k].name)
               /\ TypeWrittenAt(cols[k].data_type, starts[k] + 1)
               /\ NullabilityWritten(TypeEnd(starts[k] + 1) + 1,
                                     IF k < Len(cols) THEN starts[k + 1] - 2 ELSE idx - 1)
               /\ tokens[IF k < Len(cols) THEN starts[k + 1] - 1 ELSE idx]
                     = (IF k < Len(cols) THEN Comma ELSE RParen)
          /\ \A j \in 6..(idx - 1) :
               /\ tokens[j] = Comma => tokens[j + 1] # RParen
               /\ tokens[j] = RParen => tokens[j - 1].type = "Number"

C6_Witness ==
    /\ phase = "parsed"
    /\ result.ok
    /\ result.val.node = "SQLCreateTable"
    /\ Len(result.val.columns) = 2
    /\ result.val.columns[1].name = <<"b">>
    /\ result.val.columns[1].data_type.type = "Varchar"
    /\ result.val.columns[2].name = <<"a">>
    /\ result.val.columns[2].data_type = SQLType_Double

\* the token sequence holds one statement, a SELECT: no other SELECT or
\* CREATE keyword follows the first token
SingleSelect ==
    /\ Len(tokens) >= 1
    /\ IsKeyword(tokens[1], KW_SELECT)
    /\ \A j \in 2..Len(tokens) :
         ~IsKeyword(tokens[j], KW_SELECT) /\ ~IsKeyword(tokens[j], KW_CREATE)

\* C7: parse_limit yields no limit on ALL, the literal n on a Number n, and
\* fails on anything else; a successfully parsed SELECT statement has the
\* limit n exactly when its tokens end in LIMIT n, and has no limit exactly
\* when they end in LIMIT ALL or hold no LIMIT keyword at all, so that a LIMIT
\* followed by neither ALL nor a Number is never part of a successful parse.
C7_Limit ==
    phase = "parsed" =>
      /\ \A i \in Positions :
           LET r == parse_limit(ParserAt(i))
               t == TokenAt(i + 1)
           IN  CASE IsKeyword(t, KW_ALL) ->
                      r.ok /\ r.val = NoNode /\ r.self.index = i + 1
                 [] t.type = "Number" ->
                      Len(t.text) <= 9 =>
                        /\ r.ok
                        /\ r.val.node = "SQLLiteralInt"
                        /\ DenotedBy(r.val.value, t)
                        /\ r.self.index = i + 1
                 [] OTHER -> ~r.ok /\ r.err.kind = "ParserError"
      /\ (result.ok /\ result.val.node = "SQLSelect" /\ SingleSelect) =>
           LET n == Len(tokens)
               limit == result.val.limit
           IN  /\ limit # NoNode =>
                    /\ IsKeyword(TokenAt(n - 1), KW_LIMIT)
                    /\ limit.node = "SQLLiteralInt"
                    /\ DenotedBy(limit.value, TokenAt(n))
               /\ limit = NoNode =>
                    \/ IsKeyword(TokenAt(n - 1), KW_LIMIT) /\ IsKeyword(TokenAt(n), KW_ALL)
                    \/ \A j \in 1..n : ~IsKeyword(tokens[j], KW_LIMIT)

\* a token that starts no expression: the end of the input, `)`, `,`, or a
\* keyword other than SELECT and CREATE
StartsNoExpr(t) ==
    \/ t \in {NoToken, RParen, Comma}
    \/ t.type = "Keyword" /\ ~IsKeyword(t, KW_SELECT) /\ ~IsKeyword(t, KW_CREATE)

CountIn(i, j, t) == Cardinality({k \in (i + 1)..j : tokens[k] = t})

\* between the cursors i and j every `(` has its `)` and no statement starts
ClosedRange(i, j) ==
    /\ CountIn(i, j, LParen) = CountIn(i, j, RParen)
    /\ \A k \in (i + 1)..j :
         ~IsKeyword(tokens[k], KW_SELECT) /\ ~IsKeyword(tokens[k], KW_CREATE)

\* the positions of the commas outside parentheses between the cursors i and
\* j, in increasing order
TopCommas(i, j) ==
    SelectSeq(Indices(j), LAMBDA k :
      k > i /\ tokens[k] = Comma /\ CountIn(i, k, LParen) = CountIn(i, k, RParen))

\* the k-th of the pieces into which the commas at cs cut the tokens between
\* the cursors i and j
Piece(i, j, cs, k) ==
    SubSeq(tokens, IF k = 1 THEN i + 1 ELSE cs[k - 1] + 1,
                   IF k > Len(cs) THEN j ELSE cs[k] - 1)

\* C8: parse_expr_list, started at any position, fails on an empty list and on
\* a comma followed by no expression; it returns the one expression that no
\* comma follows, and the two expressions a comma separates, in order, with
\* the cursor after the last; in general it returns one node per piece between
\* the separating commas it consumed, each the parse of that piece, in source
\* order, and no comma is left at the cursor.  SELECT sqrt(id) FROM foo has
\* the projection <<sqrt(id)>>.
C8_ExprList ==
    phase = "parsed" =>
      /\ \A i \in Positions :
           LET r == parse_expr_list(ParserAt(i))
               e1 == parse_expr(ParserAt(i), 0)
           IN  /\ StartsNoExpr(TokenAt(i + 1)) => ~r.ok
               /\ (e1.ok /\ peek_token(e1.self) # Comma) =>
                    r.ok /\ r.val = <<e1.val>> /\ r.self.index = e1.self.index
               /\ (e1.ok /\ peek_token(e1.self) = Comma) =>
                    LET e2 == parse_expr(Advance(e1.self), 0) IN
                      /\ StartsNoExpr(TokenAt(e1.self.index + 2)) => ~r.ok
                      /\ (e2.ok /\ peek_token(e2.self) # Comma) =>
                           r.ok /\ r.val = <<e1.val, e2.val>> /\ r.self.index = e2.self.index
               /\ r.ok =>
                    /\ Len(r.val) >= 1
                    /\ peek_token(r.self) # Comma
                    /\ ClosedRange(i, r.self.index) =>
                         LET cs == TopCommas(i, r.self.index) IN
                           /\ Len(r.val) = Len(cs) + 1
                           /\ \A k \in 1..Len(r.val) :
                                LET piece == parse(Parser_new(Piece(i, r.self.index, cs, k))) IN
                                  /\ piece.ok
                                  /\ piece.self.index = Len(piece.self.tokens)
                                  /\ piece.val = r.val[k]
      /\ tokens = <<kSELECT, idSqrt, LParen, idId, RParen, kFROM, idFoo>> =>
           /\ result.ok
           /\ result.val.node = "SQLSelect"
           /\ result.val.projection = <<SQLFunction(<<"s", "q", "r", "t">>,
                                                    <<SQLIdentifier(<<"i", "d">>)>>)>>

C8_Witness ==
    /\ phase = "parsed"
    /\ result.ok
    /\ result.val.node = "SQLSelect"
    /\ Len(result.val.projection) = 2
    /\ result.val.projection[1].node = "SQLFunction"
    /\ Len(result.val.projection[1].args) = 2
    /\ result.val.projection[2].node = "SQLBinaryExpr"

IsWs(q, k) == k >= 1 /\ k <= Len(q) /\ q[k] \in WhitespaceChars

\* the strings that differ from q in one whitespace run by one character:
\* a whitespace character replaced by another, one inserted next to a
\* whitespace character, or one removed from beside a whitespace character.
\* Chains of these steps relate exactly the strings that differ only in their
\* non-empty whitespace runs.
WsEdits(q) ==
    {[q EXCEPT ![k] = w] : k \in {j \in 1..Len(q) : IsWs(q, j)}, w \in WhitespaceChars}
      \cup {SubSeq(q, 1, k) \o <<w>> \o SubSeq(q, k + 1, Len(q)) :
              k \in {j \in 0..Len(q) : IsWs(q, j) \/ IsWs(q, j + 1)}, w \in WhitespaceChars}
      \cup {SubSeq(q, 1, k - 1) \o SubSeq(q, k + 1, Len(q)) :
              k \in {j \in 1..Len(q) : IsWs(q, j) /\ (IsWs(q, j - 1) \/ IsWs(q, j + 1))}}

\* two outcomes of tokenize agree: the same tokens, or a failure both
SameOutcome(a, b) ==
    /\ a.status = b.status
    /\ a.status = "ok" => a.tokens = b.tokens

\* C9: a query and every string that differs from it only in the length or
\* the characters of a whitespace run tokenize alike (the same tokens, or a
\* failure both), and the tokens tokenize returns are those of the query with
\* no Whitespace token among them.
C9_WhitespaceInvariance ==
    /\ \A q2 \in WsEdits(query) : SameOutcome(tokenize(q2), tokenize(query))
    /\ phase \in {"ready", "parsed"} =>
         /\ tokenize(query) = Tokenized("ok", tokens, NoError)
         /\ \A k \in 1..Len(tokens) : tokens[k] # Whitespace

C9_Witness ==
    /\ phase = "ready"
    /\ query = <<"I", " ", "\n", "N">>
    /\ tokens = <<Identifier(<<"I">>), Identifier(<<"N">>)>>
    /\ Len(raw) = 4

\* the canonical text of a token
CanonText(t) ==
    CASE t.type \in {"Identifier", "Keyword", "Number"} -> t.text
      [] t = Comma -> <<",">>
      [] t = Whitespace -> <<" ">>
      [] t = Eq -> <<"=">>
      [] t = Neq -> <<"<", ">">>
      [] t = Lt -> <<"<">>
      [] t = Gt -> <<">">>
      [] t = LtEq -> <<"<", "=">>
      [] t = GtEq -> <<">", "=">>
      [] t = Plus -> <<"+">>
      [] t = Minus -> <<"-">>
      [] t = Mult -> <<"*">>
      [] t = Div -> <<"/">>
      [] t = LParen -> <<"(">>
      [] t = RParen -> <<")">>

CanonTexts(ts) == [k \in 1..Len(ts) |-> CanonText(ts[k])]

\* C10 as stated: re-tokenizing the concatenation of the canonical texts of
\* the tokens tokenize returned reproduces those tokens.
C10_RoundTripConcatenated ==
    phase = "ready" =>
      tokenize(Flatten(CanonTexts(tokens))) = Tokenized("ok", tokens, NoError)

\* C10 amended: re-tokenizing the canonical texts of the tokens tokenize
\* returned, joined by single spaces, reproduces those tokens.
C10_RoundTripSpaced ==
    phase = "ready" =>
      tokenize(Join(CanonTexts(tokens), <<" ">>)) = Tokenized("ok", tokens, NoError)

C10_Witness ==
    /\ phase = "ready"
    /\ query = <<"I", "<", "=", "1">>
    /\ tokens = <<Identifier(<<"I">>), LtEq, Number(<<"1">>)>>
    /\ Join(CanonTexts(tokens), <<" ">>) = <<"I", " ", "<", "=", " ", "1">>

LetterChars == LowerChars \cup UpperChars

\* the end of the identifier-shaped lexeme of q that starts after p characters:
\* the maximal run of letters, digits and underscores
LexemeEnd(q, p) ==
    CHOOSE e \in (p + 1)..Len(q) :
      /\ \A k \in (p + 1)..e : q[k] \in LetterChars \cup DigitChars \cup {"_"}
      /\ e < Len(q) => q[e + 1] \notin LetterChars \cup DigitChars \cup {"_"}

\* C11: at every position of a query where an identifier-shaped lexeme starts
\* (a letter or an underscore), next_token consumes the maximal run of letters,
\* digits and underscores and emits Keyword(text) if the exact text is one of
\* the 22 keywords and Identifier(text) otherwise; a lowercase spelling of a
\* keyword is an Identifier, the tokens handed to the parser carry that
\* classification, and the parser treats an Identifier as an operand, never as
\* the start of a statement.
C11_KeywordByExactText ==
    /\ Cardinality(KEYWORDS) = 22
    /\ \A p \in 0..(Len(query) - 1) :
         query[p + 1] \in LetterChars \cup {"_"} =>
           LET e == LexemeEnd(query, p)
               text == SubSeq(query, p + 1, e)
               r == Tokenizer_next_token(query, p)
           IN  /\ r.kind = "token"
               /\ r.pos = e
               /\ r.tok.text = text
               /\ r.tok.type = (IF text \in KEYWORDS THEN "Keyword" ELSE "Identifier")
               /\ (\E k \in 1..Len(text) : text[k] \in LowerChars) => r.tok.type = "Identifier"
    /\ phase \in {"ready", "parsed"} =>
         \A k \in 1..Len(tokens) :
           /\ tokens[k].type = "Keyword" => tokens[k].text \in KEYWORDS
           /\ tokens[k].type = "Identifier" => tokens[k].text \notin KEYWORDS
    /\ (phase = "parsed" /\ Len(tokens) >= 1 /\ tokens[1].type = "Identifier" /\ result.ok) =>
         /\ result.val.node \in {"SQLIdentifier", "SQLFunction", "SQLBinaryExpr"}
         /\ result.val.node = "SQLIdentifier" => result.val.id = tokens[1].text
    /\ (phase = "parsed" /\ Len(tokens) >= 1 /\ tokens[1] = Keyword(KW_IN)) => ~result.ok

C11_Witness ==
    /\ phase = "parsed"
    /\ query = <<"i", "n", " ", "1">>
    /\ tokens = <<Identifier(<<"i", "n">>), Number(<<"1">>)>>
    /\ result.ok
    /\ result.val = SQLIdentifier(<<"i", "n">>)

\* the character of q after the first p, "" at the end of q
CharAt(q, p) == IF p < Len(q) THEN q[p + 1] ELSE ""

\* C12: at every position of a query where `<` or `>` stands, next_token looks
\* at one more character and takes the longest operator: `<=` is LtEq, `<>` is
\* Neq, `>=` is GtEq, each consuming two characters; before any other
\* character or the end of the input `<` is Lt and `>` is Gt, consuming one
\* character, so that the next token starts at the character looked at.
\* `<1` is Lt, Number(1); `><` is Gt, Lt; `=>` is Eq, Gt.
C12_ComparisonOperators ==
    /\ \A p \in 0..(Len(query) - 1) :
         LET r == Tokenizer_next_token(query, p)
             c == CharAt(query, p)
             d == CharAt(query, p + 1)
         IN  /\ c = "<" =>
                  /\ r.kind = "token"
                  /\ d = "=" => r.tok = LtEq /\ r.pos = p + 2
                  /\ d = ">" => r.tok = Neq /\ r.pos = p + 2
                  /\ d \notin {"=", ">"} => r.tok = Lt /\ r.pos = p + 1
             /\ c = ">" =>
                  /\ r.kind = "token"
                  /\ d = "=" => r.tok = GtEq /\ r.pos = p + 2
                  /\ d # "=" => r.tok = Gt /\ r.pos = p + 1
    /\ phase = "ready" =>
         /\ query = <<"<", "1">> => tokens = <<Lt, Number(<<"1">>)>>
         /\ query = <<">", "<">> => tokens = <<Gt, Lt>>
         /\ query = <<"=", ">">> => tokens = <<Eq, Gt>>
         /\ query = <<"<", "=">> => tokens = <<LtEq>>
         /\ query = <<"<", ">">> => tokens = <<Neq>>
         /\ query = <<">", "=">> => tokens = <<GtEq>>
         /\ query = <<"<", "<", "=", ">">> => tokens = <<Lt, LtEq, Gt>>

C12_Witness ==
    /\ phase = "ready"
    /\ query = <<">", "<", ">", "=">>
    /\ raw = <<Gt, Neq, Eq>>
    /\ tokens = raw

\* the characters next_token has an arm for
AcceptedChars ==
    WhitespaceChars \cup LetterChars \cup DigitChars
      \cup {"_", "@", ",", "(", ")", "+", "-", "*", "/", "=", "<", ">"}

\* the positions of q that hold a character outside the accepted set
Unaccepted(q) == {k \in 1..Len(q) : q[k] \notin AcceptedChars}

Leftmost(S) == CHOOSE k \in S : \A j \in S : k <= j

\* C13: tokenize fails exactly when the query holds a character outside the
\* accepted set; the failure is the TokenizerError naming the leftmost such
\* character and carries no tokens; parse_sql then returns that error and the
\* parser has not run.
C13_TokenizerErrorIff ==
    LET t == tokenize(query)
        bad == Unaccepted(query)
    IN  /\ t.status = "err" <=> bad # {}
        /\ bad # {} =>
             /\ t.err = TokenizerError("unhandled char in tokenizer",
                                       CharOf(query[Leftmost(bad)]))
             /\ t.tokens = <<>>
        /\ phase = "failed" =>
             /\ bad # {}
             /\ ~result.ok
             /\ result.err = t.err
             /\ result.self.raised = <<t.err>>
             /\ result.self.index = 0
             /\ tokens = <<>>
        /\ phase \in {"ready", "parsed"} => bad = {}

\* the tokens start with CREATE EXTERNAL TABLE name (
CreateOpened ==
    /\ Len(tokens) >= 5
    /\ IsKeyword(tokens[1], KW_CREATE)
    /\ IsKeyword(tokens[2], KW_EXTERNAL)
    /\ IsKeyword(tokens[3], KW_TABLE)
    /\ tokens[4].type = "Identifier"
    /\ tokens[5] = LParen

\* some `)` after the opening `(` of the column list closes it: it stands
\* outside the parentheses of the types before it
ColumnListClosed ==
    \E j \in 6..Len(tokens) :
      tokens[j] = RParen /\ CountIn(5, j - 1, LParen) = CountIn(5, j - 1, RParen)

\* C14: when the tokens end after the opening `(` of a CREATE EXTERNAL TABLE
\* column list and before the `)` that closes it, parse returns a ParserError:
\* after the `(`, after a column name, inside VARCHAR(...), after a type, after
\* NOT, after a `,`.
C14_UnterminatedColumnList ==
    (phase = "parsed" /\ CreateOpened /\ ~ColumnListClosed) =>
      /\ ~result.ok
      /\ result.err.kind = "ParserError"
      /\ result.val = NoNode
      /\ result.self.index <= Len(tokens)

C14_Witness ==
    /\ phase = "parsed"
    /\ tokens = CreateHead \o <<idA, kVARCHAR, LParen, num1, RParen, kNOT>>
    /\ ~result.ok
    /\ result.err.msg = "Expected ',' or ')' after column definition"

\* the keyword sequences the parser asks for, and some it does not
KeywordSeqs ==
    {<<KW_NOT, KW_NULL>>, <<KW_EXTERNAL, KW_TABLE>>, <<KW_DOUBLE, KW_NOT, KW_NULL>>,
     <<KW_LIMIT, KW_ALL>>}

\* the tokens after the first i are the keywords ks, in order
KeywordsAhead(i, ks) == \A j \in 1..Len(ks) : IsKeyword(TokenAt(i + j), ks[j])

\* r is the outcome of a keyword match at cursor i: the answer b, the cursor
\* advanced by n if b, and neither the tokens nor the errors changed
KeywordOutcome(r, i, n, b) ==
    /\ r.val = b
    /\ r.self.index = (IF b THEN i + n ELSE i)
    /\ r.self.tokens = tokens
    /\ r.self.raised = <<>>

\* the keywords parse_keyword is asked for
AskedKeywords == {KW_FROM, KW_LIMIT, KW_NULL}

\* C15: at every cursor position, parse_keywords returns true with the cursor
\* advanced by the length of the sequence when all its keywords are the next
\* tokens in order, and false with the cursor where it was otherwise, also
\* when a prefix of the sequence had matched; parse_keyword returns true with
\* the cursor advanced by one when the next token is that keyword and false
\* with the cursor unchanged otherwise.  Neither changes anything else.
C15_KeywordsAtomic ==
    phase = "parsed" =>
      \A i \in Positions :
        /\ \A ks \in KeywordSeqs :
             KeywordOutcome(parse_keywords(ParserAt(i), ks),
                            i, Len(ks), KeywordsAhead(i, ks))
        /\ \A k \in AskedKeywords :
             KeywordOutcome(parse_keyword(ParserAt(i), k),
                            i, 1, IsKeyword(TokenAt(i + 1), k))

C15_Witness ==
    /\ phase = "parsed"
    /\ tokens = CreateHead \o <<idA, kDOUBLE, kNOT, RParen>>
    /\ ~parse_keywords(ParserAt(7), <<KW_NOT, KW_NULL>>).val
    /\ ~result.ok
    /\ result.self.index = 7
    /\ peek_token(result.self) = kNOT

\* the node n is the operand written as the token t
OperandNode(n, t) ==
    \/ t.type = "Identifier" /\ n = SQLIdentifier(t.text)
    \/ t.type = "Number" /\ n.node = "SQLLiteralInt" /\ DenotedBy(n.value, t)

IsOperand(t) == t.type \in {"Identifier", "Number"}

\* the SQLOperator a comparison token stands for
OperatorOf(t) ==
    CASE t = Eq -> "EQ" [] t = Lt -> "LT" [] t = LtEq -> "LTEQ"
      [] t = Gt -> "GT" [] t = GtEq -> "GTEQ"

\* after the first i tokens stand x op1 y op2 z, operands joined by comparison
\* operators, and then a token that continues no expression
ChainAt(i) ==
    /\ IsOperand(TokenAt(i + 1)) /\ TokenAt(i + 2) \in CompareOps
    /\ IsOperand(TokenAt(i + 3)) /\ TokenAt(i + 4) \in CompareOps
    /\ IsOperand(TokenAt(i + 5))
    /\ \/ TokenAt(i + 6) \in {NoToken, Comma, RParen}
       \/ TokenAt(i + 6).type \in {"Keyword", "Identifier", "Number"}

\* C16: where x op1 y op2 z stands, with comparison operators op1 and op2,
\* parse_expr(0) yields ((x op1 y) op2 z) and consumes the five tokens, while
\* parse_expr at the floor of the comparison precedence yields x alone and
\* leaves op1 at the cursor: the loop continues only on a strictly greater
\* precedence, and a right operand is parsed with its operator's precedence
\* as the floor.
C16_LeftAssociative ==
    phase = "parsed" =>
      /\ \A i \in Positions :
           ChainAt(i) =>
             LET r == parse_expr(ParserAt(i), 0)
                 f == parse_expr(ParserAt(i), 20)
             IN  /\ r.ok
                 /\ r.self.index = i + 5
                 /\ r.val.node = "SQLBinaryExpr"
                 /\ r.val.op = OperatorOf(TokenAt(i + 4))
                 /\ OperandNode(r.val.right, TokenAt(i + 5))
                 /\ r.val.left.node = "SQLBinaryExpr"
                 /\ r.val.left.op = OperatorOf(TokenAt(i + 2))
                 /\ OperandNode(r.val.left.left, TokenAt(i + 1))
                 /\ OperandNode(r.val.left.right, TokenAt(i + 3))
                 /\ f.ok
                 /\ f.self.index = i + 1
                 /\ OperandNode(f.val, TokenAt(i + 1))
      /\ ChainAt(0) => result = parse_expr(ParserAt(0), 0)

C16_Witness ==
    /\ phase = "parsed"
    /\ tokens = <<idA, LtEq, idB, Gt, num1>>
    /\ result.ok
    /\ result.val = SQLBinaryExpr(SQLBinaryExpr(SQLIdentifier(<<"a">>), "LTEQ",
                                                SQLIdentifier(<<"b">>)),
                                  "GT", SQLLiteralInt(<<"1">>))

\* the operators of the binary nodes of an AST
RECURSIVE OpsOf(_)
OpsOfAll(ns) == UNION {OpsOf(ns[k]) : k \in 1..Len(ns)}

OpsOf(n) ==
    CASE n.node = "SQLBinaryExpr" -> {n.op} \cup OpsOf(n.left) \cup OpsOf(n.right)
      [] n.node = "SQLFunction" -> OpsOfAll(n.args)
      [] n.node = "SQLSelect" ->
           OpsOfAll(n.projection) \cup OpsOf(n.selection) \cup OpsOf(n.relation)
             \cup OpsOf(n.limit)
      [] OTHER -> {}

\* the token t ends an operand
EndsOperand(t) == IsOperand(t) \/ t = RParen

\* C17 as stated: whenever +, -, *, / or <> directly follows a complete
\* operand anywhere in the tokens, the whole parse fails with a ParserError.
C17_OperatorAnywhereFails ==
    (phase = "parsed" /\ \E j \in 2..Len(tokens) :
                           tokens[j] \in OtherOps /\ EndsOperand(tokens[j - 1]))
      => ~result.ok /\ result.err.kind = "ParserError"

\* C17 amended: whenever parse_expr, at any position and floor, has parsed an
\* operand and finds +, -, *, / or <> at the cursor with a precedence above the
\* floor, it fails with a ParserError; a successful parse has consumed no such
\* token, leaves none at the cursor and has no binary node but of the five
\* comparison operators; a SELECT statement that holds such a token anywhere
\* fails.  Such a token may stand among the tokens that a successful parse of
\* a bare expression or a CREATE statement leaves unconsumed behind the
\* cursor token.
C17_OperatorAtCursorFails ==
    phase = "parsed" =>
      /\ \A i \in Positions :
           LET pre == parse_prefix(ParserAt(i)) IN
             (pre.ok /\ peek_token(pre.self) \in OtherOps) =>
               /\ ~parse_expr(ParserAt(i), 0).ok
               /\ parse_expr(ParserAt(i), 0).err.kind = "ParserError"
               /\ peek_token(pre.self) # Neq => ~parse_expr(ParserAt(i), 20).ok
      /\ result.ok =>
           /\ \A j \in 1..result.self.index : tokens[j] \notin OtherOps
           /\ peek_token(result.self) \notin OtherOps
           /\ OpsOf(result.val) \subseteq {"EQ", "LT", "LTEQ", "GT", "GTEQ"}
      /\ (Len(tokens) >= 1 /\ IsKeyword(tokens[1], KW_SELECT)
            /\ \E j \in 1..Len(tokens) : tokens[j] \in OtherOps)
           => ~result.ok /\ result.err.kind = "ParserError"

C17_Witness ==
    /\ phase = "parsed"
    /\ tokens = <<idA, Eq, idB, Neq, num1>>
    /\ ~result.ok
    /\ result.err = ParserError("No infix parser for token", Neq, NoToken)

\* the cursor before the k-th write of the trail tr of a parser started at 0
CursorBefore(tr, k) == IF k = 1 THEN 0 ELSE tr[k - 1].index

\* C18: over the whole run of parse, the cursor starts at 0 and every write
\* leaves it within 0..Len(tokens); a write is either an advance by one from a
\* position below the token count, or the restore of a failing parse_keywords
\* call, which undoes exactly the advances of the keywords that call had
\* matched and so sets the cursor to its value at the start of the call; the
\* cursor never decreases otherwise.  This holds for every input, the empty
\* sequence included.
C18_CursorInvariant ==
    phase = "parsed" =>
      LET tr == result.self.trail IN
        /\ result.self.index = (IF tr = <<>> THEN 0 ELSE tr[Len(tr)].index)
        /\ result.self.index \in 0..Len(tokens)
        /\ result.self.tokens = tokens
        /\ \A k \in 1..Len(tr) :
             /\ tr[k].index \in 0..Len(tokens)
             /\ tr[k].kind = "advance" =>
                  /\ CursorBefore(tr, k) < Len(tokens)
                  /\ tr[k].index = CursorBefore(tr, k) + 1
             /\ tr[k].kind = "restore" =>
                  /\ tr[k].index = CursorBefore(tr, k) - tr[k].matched
                  /\ tr[k].matched < k
                  /\ \A j \in (k - tr[k].matched)..(k - 1) : tr[j].kind = "advance"

C18_Witness ==
    /\ phase = "parsed"
    /\ tokens = CreateHead \o <<idA, kDOUBLE, kNOT, Comma>>
    /\ \E k \in 1..Len(result.self.trail) :
         /\ result.self.trail[k].kind = "restore"
         /\ result.self.trail[k].matched = 1
         /\ result.self.trail[k].index = 7
    /\ result.self.index = 7

StepKinds == {"parse_expr", "expr_loop", "list_loop", "column_loop"}

\* the marks of one kind in a trail, in order
StepsOf(tr, kind) == SelectSeq(tr, LAMBDA e : e.kind = kind)

\* the call that returned r, if successful, left the cursor beyond i
ConsumedFrom(r, i) == r.ok => r.self.index > i

\* C19: parse returns an AST or a ParserError on every input; over its whole
\* run the entries of parse_expr, the iterations of its loop, the iterations
\* of parse_expr_list and those of the column loop of parse_create each
\* happen at strictly increasing cursors, so there are at most as many of
\* each as there are tokens (one more for the entries of parse_expr); and
\* at every position a successful parse_expr, helper (one list iteration),
\* parse_infix (one iteration of the loop of parse_expr) or column loop has
\* consumed at least one token.
C19_Terminates ==
    phase = "parsed" =>
      /\ result.ok \/ result.err.kind = "ParserError"
      /\ result.ok => result.val # NoNode
      /\ \A kind \in StepKinds :
           LET ev == StepsOf(result.self.trail, kind) IN
             /\ \A k \in 2..Len(ev) : ev[k].index > ev[k - 1].index
             /\ \A k \in 1..Len(ev) : ev[k].index <= Len(tokens)
             /\ Len(ev) <= Len(tokens) + 1
      /\ \A i \in Positions :
           /\ ConsumedFrom(parse_expr(ParserAt(i), 0), i)
           /\ ConsumedFrom(parse_expr(ParserAt(i), 20), i)
           /\ ConsumedFrom(helper(ParserAt(i)), i)
           /\ get_next_precedence(ParserAt(i)) > 0
                => ConsumedFrom(parse_infix(ParserAt(i), SQLIdentifier(<<"a">>), 20), i)
           /\ ConsumedFrom(parse_create_loop(ParserAt(i), <<>>), i + 2)

C19_Witness ==
    /\ phase = "parsed"
    /\ result.ok
    /\ result.val.node = "SQLSelect"
    /\ Len(StepsOf(result.self.trail, "list_loop")) = 2
    /\ Len(StepsOf(result.self.trail, "expr_loop")) = 2
    /\ Len(StepsOf(result.self.trail, "parse_expr")) >= 6

\* the tokens consume_token is asked for
ExpectedTokens == {LParen, RParen}

\* C20: at every cursor position consume_token(expected) succeeds with the
\* cursor advanced by one when the next token equals expected; otherwise it
\* fails with the ParserError that reports expected and the token found at
\* the cursor, and at the end of the input reports that no token was found.
C20_ConsumeToken ==
    phase = "parsed" =>
      \A i \in Positions : \A expected \in ExpectedTokens :
        LET r == consume_token(ParserAt(i), expected)
            found == TokenAt(i + 1)
        IN  IF found = expected
            THEN r.ok /\ r.self.index = i + 1
            ELSE /\ ~r.ok
                 /\ r.err = ParserError("expected token but was", expected, found)

\* the positions of the keyword k among the tokens
KeywordPositions(k) == {j \in 1..Len(tokens) : IsKeyword(tokens[j], k)}

\* a clause keyword stands a second time, before a clause that must precede
\* its own, or LIMIT is followed by more than its one operand
ClausesMisplaced ==
    \/ \E k \in {KW_FROM, KW_WHERE, KW_LIMIT} : Cardinality(KeywordPositions(k)) > 1
    \/ \E w \in KeywordPositions(KW_WHERE) : \E f \in KeywordPositions(KW_FROM) : w < f
    \/ \E l \in KeywordPositions(KW_LIMIT) :
         \E c \in KeywordPositions(KW_FROM) \cup KeywordPositions(KW_WHERE) : l < c
    \/ \E l \in KeywordPositions(KW_LIMIT) : Len(tokens) > l + 1

\* C21: for a token sequence that holds one SELECT statement, a successful
\* parse has the relation exactly when the tokens hold a FROM keyword and the
\* selection exactly when they hold a WHERE keyword, its order is absent, and
\* the clause keywords stand at most once each, FROM before WHERE before
\* LIMIT, with nothing after the operand of LIMIT; otherwise the parse fails
\* with a ParserError.
C21_ClauseOrder ==
    (phase = "parsed" /\ SingleSelect) =>
      /\ (result.ok /\ result.val.node = "SQLSelect") =>
           /\ result.val.order = NoNode
           /\ result.val.relation # NoNode <=> KeywordPositions(KW_FROM) # {}
           /\ result.val.selection # NoNode <=> KeywordPositions(KW_WHERE) # {}
      /\ ClausesMisplaced => ~result.ok /\ result.err.kind = "ParserError"

\* the tokens without the keywords NOT and NULL
WithoutNullability ==
    SelectSeq(tokens, LAMBDA t : ~IsKeyword(t, KW_NOT) /\ ~IsKeyword(t, KW_NULL))

\* the number of tokens that the nullability written after position i takes:
\* two for NOT NULL, one for NULL, none otherwise (a NOT alone included)
NullabilityLen(i) ==
    CASE IsKeyword(TokenAt(i + 1), KW_NOT) /\ IsKeyword(TokenAt(i + 2), KW_NULL) -> 2
      [] IsKeyword(TokenAt(i + 1), KW_NULL) -> 1
      [] OTHER -> 0

\* a column name and a type stand after position i, followed by a NOT that
\* no NULL follows
LoneNotColumn(i) ==
    /\ TokenAt(i + 1).type = "Identifier"
    /\ \/ IsKeyword(TokenAt(i + 2), KW_DOUBLE)
       \/ /\ IsKeyword(TokenAt(i + 2), KW_VARCHAR)
          /\ TokenAt(i + 3) = LParen
          /\ TokenAt(i + 4).type = "Number"
          /\ Len(TokenAt(i + 4).text) <= 9
          /\ TokenAt(i + 5) = RParen
    /\ IsKeyword(TokenAt(TypeEnd(i + 2) + 1), KW_NOT)
    /\ ~IsKeyword(TokenAt(TypeEnd(i + 2) + 2), KW_NULL)

\* C22: every column of a successfully parsed CREATE TABLE node has
\* allow_null true; the node is the one parsed from the same tokens without
\* their NOT and NULL keywords, and no consumed NOT lacks its NULL; at every
\* position the nullability step consumes exactly a written NOT NULL or NULL
\* and leaves a NOT alone unconsumed, and the column loop then fails with the
\* ParserError about the end of a column definition, the cursor on that NOT.
C22_AlwaysNullable ==
    phase = "parsed" =>
      /\ (result.ok /\ result.val.node = "SQLCreateTable") =>
           /\ \A k \in 1..Len(result.val.columns) :
                result.val.columns[k].allow_null = TRUE
           /\ LET plain == parse(Parser_new(WithoutNullability)) IN
                plain.ok /\ plain.val = result.val
           /\ \A j \in 1..result.self.index :
                IsKeyword(tokens[j], KW_NOT) => IsKeyword(TokenAt(j + 1), KW_NULL)
      /\ \A i \in Positions :
           /\ column_nullability(ParserAt(i)).index = i + NullabilityLen(i)
           /\ LoneNotColumn(i) =>
                LET r == parse_create_loop(ParserAt(i), <<>>) IN
                  /\ ~r.ok
                  /\ r.err = ParserError("Expected ',' or ')' after column definition",
                                         NoToken, NoToken)
                  /\ IsKeyword(peek_token(r.self), KW_NOT)

\* CREATE EXTERNAL TABLE t (a VARCHAR(1) NOT NULL, b DOUBLE NULL) parsed: two
\* columns, both nullable
C22_Witness ==
    /\ phase = "parsed"
    /\ tokens = FullCreate
    /\ result.ok
    /\ result.val.node = "SQLCreateTable"
    /\ Len(result.val.columns) = 2
    /\ \A k \in 1..2 : result.val.columns[k].allow_null = TRUE
    /\ result.self.index = Len(tokens)

====
